---- MODULE Spec2Model ----
(***************************************************************************)
(* Weather Sensor MQTT Bridge (alekc/hass-mqtt-weather-sensor), index.js.  *)
(*                                                                         *)
(* One Node.js process: the top-level script validates the environment and *)
(* opens the broker client; the broker's lifecycle events and the timers   *)
(* then drive fetchAndPublish.  Every action below is one run-to-completion*)
(* turn of the event loop: the synchronous code from an event (or from the *)
(* resolution of an await) up to the next await, process.exit or return.   *)
(* Wall-clock time is abstracted: a fetch may take arbitrarily long (axios *)
(* is called without a timeout), so a timer tick may fall anywhere between *)
(* the turns of a cycle.  The retry delays all have the same length, so    *)
(* they expire in the order in which they were started (delayQ).           *)
(***************************************************************************)
EXTENDS Integers, Sequences, FiniteSets, TLC

\* ------------------------------------------------------------------ bounds
MaxStations == 2     \* longest configured station list
MaxRetries == 2      \* largest explicitly configured RETRIES
MaxCycles == 2       \* fetchAndPublish calls per run (the immediate one and ticks)
MaxTimerFetches == 4 \* most fetches one cycle can make in the timer-driven runs
MaxEdits == 1        \* observation changes in a run of the publisher alone

\* ------------------------------------------------------- program constants
ExitMissingEnv == 2
ExitInvalidExecEvery == 3
ExitInvalidSensorName == 4
ExitMqttClosed == 5
ExitMqttError == 6
ExitFetchFailed == 7
DefaultRetries == 5
RetryDelayMs == 2000

\* ------------------------------------------------------------- environment
\* An environment variable is unset, or set to a value.  SENSOR_NAME and
\* STATION_ID are sequences of characters, EXEC_EVERY is a string, RETRIES
\* is a decimal numeral (given by its value) or a string parseInt rejects.
NUL == "\\u0000"

Unset == [set |-> FALSE, val |-> <<>>]
Chars(s) == [set |-> TRUE, val |-> s]
UnsetStr == [set |-> FALSE, val |-> ""]
Str(s) == [set |-> TRUE, val |-> s]
UnsetNum == [set |-> FALSE, nan |-> FALSE, n |-> 0]
Numeral(n) == [set |-> TRUE, nan |-> FALSE, n |-> n]
NotANumeral == [set |-> TRUE, nan |-> TRUE, n |-> 0]

\* JavaScript truthiness of a string-valued variable: undefined and '' are falsy.
TruthyChars(v) == v.set /\ v.val # <<>>
TruthyStr(v) == v.set /\ v.val # ""

SensorNames ==
    { Unset, Chars(<<>>), Chars(<<"w", "s">>), Chars(<<"a", "+">>),
      Chars(<<"#">>), Chars(<<"a", NUL, "b">>) }

StationNames == <<"A", "B", "C", "D">>

\* "A", "A,B", "A,B,C", ... and the same with blanks after the commas,
\* and a list that names its first station twice.
RECURSIVE JoinStations(_, _)
JoinStations(n, sep) ==
    IF n = 1 THEN <<StationNames[1]>>
    ELSE JoinStations(n - 1, sep) \o sep \o <<StationNames[n]>>

StationIdStrings ==
    { Chars(JoinStations(n, <<",">>)) : n \in 1..MaxStations }
    \cup { Chars(JoinStations(MaxStations, <<",", " ">>)) }
    \cup { Chars(<<"A", ",", "A">>) }

ExecEveryStrings == { UnsetStr, Str(""), Str("abc"), Str("0s"), Str("-5s"), Str("1m") }

RetriesValues == { UnsetNum, NotANumeral } \cup { Numeral(n) : n \in 0..MaxRetries }

Present == Str("x")

BaseEnv ==
    [ SENSOR_NAME |-> Chars(<<"w", "s">>),
      API_KEY     |-> Present,
      STATION_ID  |-> Chars(<<"A">>),
      RETRIES     |-> Numeral(1),
      MQTT_HOST   |-> Present,
      MQTT_PORT   |-> Present,
      EXEC_EVERY  |-> Str("1m") ]

\* Environments that differ in what the start-up validation reads.
StartupEnvs ==
    { [ BaseEnv EXCEPT !.SENSOR_NAME = sn, !.API_KEY = ak, !.MQTT_HOST = mh ] :
        sn \in SensorNames, ak \in {UnsetStr, Present}, mh \in {Str(""), Present} }
    \cup { [ BaseEnv EXCEPT !.SENSOR_NAME = sn, !.STATION_ID = Unset ] : sn \in SensorNames }
    \cup { [ BaseEnv EXCEPT !.SENSOR_NAME = sn, !.MQTT_PORT = UnsetStr ] : sn \in SensorNames }

\* Environments that pass the validation and differ in what the scheduler
\* and the retrier read: every station list with every positive retry
\* budget, in one-shot mode and (up to MaxTimerFetches fetches a cycle) in
\* timer-driven mode; then, around BaseEnv, the other EXEC_EVERY strings,
\* the other RETRIES values and the other spellings of STATION_ID.
RunEnvs ==
    { [ BaseEnv EXCEPT !.STATION_ID = Chars(JoinStations(n, <<",">>)),
                       !.RETRIES = Numeral(r), !.EXEC_EVERY = Str("") ] :
        n \in 1..MaxStations, r \in 1..MaxRetries }
    \cup { [ BaseEnv EXCEPT !.STATION_ID = Chars(JoinStations(nr[1], <<",">>)),
                            !.RETRIES = Numeral(nr[2]), !.EXEC_EVERY = Str("1m") ] :
             nr \in { x \in (1..MaxStations) \X (1..MaxRetries) :
                        x[1] * x[2] <= MaxTimerFetches } }
    \cup { [ BaseEnv EXCEPT !.EXEC_EVERY = ee ] : ee \in ExecEveryStrings }
    \cup { [ BaseEnv EXCEPT !.RETRIES = r, !.EXEC_EVERY = ee ] :
             r \in RetriesValues, ee \in {Str("1m"), Str("")} }
    \cup { [ BaseEnv EXCEPT !.STATION_ID = st, !.EXEC_EVERY = ee ] :
             st \in StationIdStrings, ee \in {Str("1m"), Str("")} }

Envs == StartupEnvs \cup RunEnvs

\* ------------------------------------------------------------------ state
VARIABLES
    env,          \* process.env, read once by the destructuring at the top
    running,      \* FALSE once process.exit has been called
    exitCode,     \* the argument of process.exit (0 while running)
    booted,       \* the top-level script has run
    client,       \* the broker client: "none", "connecting", "connected"
    lastEvent,    \* the last broker lifecycle event delivered ("none" before any)
    connects,     \* number of connect events delivered
    mode,         \* what the connect handler scheduled: "none", "timer", "oneshot"
    timers,       \* number of interval timers armed by setInterval
    cycles,       \* the fetchAndPublish calls, in the order they were started
    delayQ,       \* cycles waiting in the retry delay, oldest first
    published,    \* the messages handed to client.publish, in order
    mapper        \* the publisher taken alone: its observation, what it built
                  \* and published for it, and the broker's retained messages

processVars == <<env, running, exitCode, booted, client, lastEvent, connects, mode,
                 timers, cycles, delayQ, published>>
vars == <<processVars, mapper>>

\* ------------------------------------------------- configuration (lines 7-45)
\* The destructuring defaults apply to an unset variable only, not to ''.
ExecEveryDefaultsEmpty == IF env.EXEC_EVERY.set THEN env.EXEC_EVERY.val ELSE ""
ExecEvery == IF env.EXEC_EVERY.set THEN env.EXEC_EVERY.val ELSE "1m"

\* parseInt(RETRIES, 10): the number, or NaN.
retries ==
    IF env.RETRIES.set THEN [nan |-> env.RETRIES.nan, n |-> env.RETRIES.n]
    ELSE [nan |-> FALSE, n |-> DefaultRetries]

\* parse-duration on the strings of ExecEveryStrings: milliseconds, or null
\* for a string with no duration in it.
parseDuration(s) ==
    CASE s = "1m"  -> [null |-> FALSE, ms |-> 60000]
      [] s = "0s"  -> [null |-> FALSE, ms |-> 0]
      [] s = "-5s" -> [null |-> FALSE, ms |-> 0 - 5000]
      [] OTHER     -> [null |-> TRUE, ms |-> 0]

\* !interval || interval < 1
InvalidInterval(interval) == interval.null \/ interval.ms = 0 \/ interval.ms < 1

MissingRequired ==
    \/ ~TruthyChars(env.SENSOR_NAME)
    \/ ~TruthyStr(env.API_KEY)
    \/ ~TruthyChars(env.STATION_ID)
    \/ ~TruthyStr(env.MQTT_HOST)
    \/ ~TruthyStr(env.MQTT_PORT)

isValidMqttTopicAllowsHash(str) ==
    /\ str.set
    /\ Len(str.val) > 0
    /\ \A i \in 1..Len(str.val) : str.val[i] \notin {"+", NUL}
isValidMqttTopic(str) ==
    /\ str.set
    /\ Len(str.val) > 0
    /\ \A i \in 1..Len(str.val) : str.val[i] \notin {"+", "#", NUL}

\* STATION_ID.split(',')
RECURSIVE Split(_)
Split(s) ==
    IF \A i \in 1..Len(s) : s[i] # ","
    THEN <<s>>
    ELSE LET i == CHOOSE j \in 1..Len(s) :
                      s[j] = "," /\ \A k \in 1..(j - 1) : s[k] # ","
         IN  <<SubSeq(s, 1, i - 1)>> \o Split(SubSeq(s, i + 1, Len(s)))

\* s.trim()
RECURSIVE Trim(_)
Trim(s) ==
    IF s = <<>> THEN s
    ELSE IF Head(s) = " " THEN Trim(Tail(s))
    ELSE IF s[Len(s)] = " " THEN Trim(SubSeq(s, 1, Len(s) - 1))
    ELSE s

stationIds == LET parts == Split(env.STATION_ID.val)
              IN  [i \in 1..Len(parts) |-> Trim(parts[i])]

\* ---------------------------------------------------------- observations
\* A JSON value of an observation field: undefined (the key is absent),
\* null, a number or a string; s is what String(value) returns.
Undefined == [t |-> "undefined", s |-> "undefined"]
Null == [t |-> "null", s |-> "null"]
Num(s) == [t |-> "number", s |-> s]
Text(s) == [t |-> "string", s |-> s]

\* value === undefined || value === null (lines 181 and 194).
IsNullishUndefinedOnly(v) == v.t = "undefined"
IsNullishOrFalsy(v) == v.t = "undefined" \/ v.t = "null" \/ v.s = "0" \/ v.s = ""
IsNullish(v) == v.t = "undefined" \/ v.t = "null"

TopKeys == <<"obsTimeUtc", "solarRadiation", "winddir", "humidity">>
MetricKeys == <<"temp", "heatIndex", "dewpt", "windChill", "windSpeed", "windGust",
                "pressure", "precipRate", "precipTotal", "elev">>
Range(seq) == { seq[i] : i \in 1..Len(seq) }

NoFields(keys) == [k \in Range(keys) |-> Undefined]

\* obs.metric is absent, null or an object with the metric fields; order is
\* the order in which the JSON document lists the keys of the object.
NoMetric == [t |-> "undefined", f |-> NoFields(MetricKeys), order |-> MetricKeys]
NullMetric == [t |-> "null", f |-> NoFields(MetricKeys), order |-> MetricKeys]
Metric(f) == [t |-> "object", f |-> f, order |-> MetricKeys]

ObsScenario ==
    [top    |-> [NoFields(TopKeys) EXCEPT !["humidity"] = Num("55")],
     metric |-> Metric([NoFields(MetricKeys) EXCEPT !["temp"] = Num("18.2")])]
ObsNulls ==
    [top    |-> [NoFields(TopKeys) EXCEPT !["obsTimeUtc"] = Text("2024-05-01T10:00:00Z"),
                                          !["winddir"] = Num("0"),
                                          !["humidity"] = Null],
     metric |-> Metric([NoFields(MetricKeys) EXCEPT !["pressure"] = Null,
                                                    !["elev"] = Num("12")])]
ObsNoMetric ==
    [top    |-> [NoFields(TopKeys) EXCEPT !["solarRadiation"] = Num("310.5")],
     metric |-> NullMetric]

\* The observation records the upstream service answers with.
Observations == {ObsScenario, ObsNulls}

\* What `await fetchWeather(stationId)` can give: a rejection (transport
\* error, non-2xx status), or a response whose body may lack data, lack the
\* observations array, or carry an array of observation records.
Response(threw, hasData, hasObservations, observations) ==
    [threw |-> threw, hasData |-> hasData, hasObservations |-> hasObservations,
     observations |-> observations]

Responses ==
    { Response(TRUE, FALSE, FALSE, <<>>),
      Response(FALSE, FALSE, FALSE, <<>>),
      Response(FALSE, TRUE, FALSE, <<>>),
      Response(FALSE, TRUE, TRUE, <<>>) }
    \cup { Response(FALSE, TRUE, TRUE, <<o>>) : o \in Observations }
    \cup { Response(FALSE, TRUE, TRUE, <<ObsScenario, ObsNoMetric>>) }

\* ------------------------------------------- publishToMqtt (lines 125-209)
Sensor(key, name, device_class, unit, value) ==
    [key |-> key, name |-> name, device_class |-> device_class, unit |-> unit,
     value |-> value]

\* device_class: undefined and unit: undefined are the empty string here:
\* both are falsy, which is all lines 203-204 ask of them.  The units are
\* spelled in ASCII (W/m2, deg, C).
TopSensors(obs) ==
    << Sensor("obsTimeUtc", "Observation Time", "", "", obs.top["obsTimeUtc"]),
       Sensor("solarRadiation", "Solar Radiation", "", "W/m2", obs.top["solarRadiation"]),
       Sensor("winddir", "Wind Direction", "", "deg", obs.top["winddir"]),
       Sensor("humidity", "Humidity", "humidity", "%", obs.top["humidity"]) >>

metricMap ==
    [ temp        |-> [name |-> "Temperature", device_class |-> "temperature", unit |-> "C"],
      heatIndex   |-> [name |-> "Heat Index", device_class |-> "temperature", unit |-> "C"],
      dewpt       |-> [name |-> "Dew Point", device_class |-> "temperature", unit |-> "C"],
      windChill   |-> [name |-> "Wind Chill", device_class |-> "temperature", unit |-> "C"],
      windSpeed   |-> [name |-> "Wind Speed", device_class |-> "wind_speed", unit |-> "km/h"],
      windGust    |-> [name |-> "Wind Gust", device_class |-> "wind_speed", unit |-> "km/h"],
      pressure    |-> [name |-> "Pressure", device_class |-> "pressure", unit |-> "hPa"],
      precipRate  |-> [name |-> "Precipitation Rate", device_class |-> "", unit |-> "mm/h"],
      precipTotal |-> [name |-> "Precipitation Total", device_class |-> "", unit |-> "mm"],
      elev        |-> [name |-> "Elevation", device_class |-> "", unit |-> "m"] ]

\* Object.entries(metricMap) (line 180): the keys of the table, in the
\* table's order, not the keys of obs.metric.
MetricEntriesOfObs(obs) == obs.metric.order
MetricEntries(obs) == MetricKeys

\* Lines 180-190: the entries of metricMap, in its own key order, whose
\* field of obs.metric is neither undefined nor null.
RECURSIVE MetricSensors(_, _)
MetricSensors(obs, i) ==
    IF i > Len(MetricEntries(obs)) THEN <<>>
    ELSE LET key == MetricEntries(obs)[i]
             meta == metricMap[key]
             rest == MetricSensors(obs, i + 1)
         IN  IF ~IsNullish(obs.metric.f[key])
             THEN <<Sensor(key, meta.name, meta.device_class, meta.unit,
                           obs.metric.f[key])>> \o rest
             ELSE rest

\* Lines 134-191: the sensors array before the publish loop.
Sensors(obs) ==
    IF obs.metric.t = "object"
    THEN TopSensors(obs) \o MetricSensors(obs, 1)
    ELSE TopSensors(obs)

\* Lines 195-206: the two client.publish calls of one sensor.
ConfigMessage(c, sensor) ==
    [cycle   |-> c,
     topic   |-> <<"homeassistant/sensor", env.SENSOR_NAME.val, sensor.key, "config">>,
     retain  |-> TRUE,
     payload |-> [keys |-> {"name", "state_topic", "unique_id", "device"}
                           \cup (IF sensor.device_class # "" THEN {"device_class"} ELSE {})
                           \cup (IF sensor.unit # "" THEN {"unit_of_measurement"} ELSE {}),
                  name |-> <<"Weather", env.SENSOR_NAME.val, sensor.name>>,
                  unique_id |-> <<env.SENSOR_NAME.val, "_", sensor.key>>,
                  device |-> env.SENSOR_NAME.val,
                  device_class |-> sensor.device_class,
                  unit_of_measurement |-> sensor.unit,
                  text |-> ""]]

StateMessage(c, sensor) ==
    [cycle   |-> c,
     topic   |-> <<"homeassistant/sensor", env.SENSOR_NAME.val, sensor.key, "state">>,
     retain  |-> TRUE,
     payload |-> [keys |-> {}, name |-> <<>>, unique_id |-> <<>>, device |-> <<>>,
                  device_class |-> "",
                  unit_of_measurement |-> "", text |-> sensor.value.s]]

\* Lines 205-206: config first, then state.
SensorMessagesStateFirst(c, sensor) == <<StateMessage(c, sensor), ConfigMessage(c, sensor)>>
SensorMessages(c, sensor) == <<ConfigMessage(c, sensor), StateMessage(c, sensor)>>

\* Lines 193-208: the publish loop over the sensors array.
RECURSIVE PublishLoop(_, _, _)
PublishLoop(c, sensors, i) ==
    IF i > Len(sensors) THEN <<>>
    ELSE IF IsNullish(sensors[i].value) THEN PublishLoop(c, sensors, i + 1)
    ELSE SensorMessages(c, sensors[i]) \o PublishLoop(c, sensors, i + 1)

\* The messages one call publishToMqtt(obs), made by cycle c, publishes.
publishToMqtt(c, obs) == PublishLoop(c, Sensors(obs), 1)

\* Lines 108-109: the first observation of the list is published, the
\* others are not looked at.
RECURSIVE PublishEach(_, _)
PublishEach(c, observations) ==
    IF observations = <<>> THEN <<>>
    ELSE publishToMqtt(c, Head(observations)) \o PublishEach(c, Tail(observations))
PublishFirst(c, observations) == publishToMqtt(c, observations[1])

\* ------------------------------------------ fetchAndPublish (lines 101-123)
\* A call of fetchAndPublish is a record: where it is suspended (pc), the
\* loop variables (idx into stationIds, attempt), whether the one-shot
\* .then callback of line 59 waits for it, and what it has done so far (log).
\*   pc = "fetch"     awaiting fetchWeather(stationIds[idx])       line 106
\*   pc = "delay"     awaiting the retry delay                     line 116
\*   pc = "done"      returned true                                line 110
\*   pc = "exhausted" left the station loop                        line 120
LogEntry(op, st, ms) == [op |-> op, st |-> st, ms |-> ms]

\* attempt < retries (false against NaN)
RetryAllowedOffByOne(attempt) == ~retries.nan /\ attempt <= retries.n
RetryAllowed(attempt) == ~retries.nan /\ attempt < retries.n

\* attempt++ (line 115)
NextAttemptStuck(attempt) == attempt
NextAttempt(attempt) == attempt + 1

\* The delay of line 116 after the given number of failed attempts.
RetryDelayGrowing(attempt) == RetryDelayMs * attempt
RetryDelay(attempt) == RetryDelayMs

\* response.data && response.data.observations && ....length > 0
HasObservations(resp) ==
    resp.hasData /\ resp.hasObservations /\ Len(resp.observations) > 0

\* let attempt = 0 at the top of the station loop (line 103); prev is the
\* attempt count of the station before.
StationLoopAttemptKept(prev) == prev
StationLoopAttempt(prev) == 0

\* The loops of lines 102-119 run from the head of the while loop with the
\* given loop variables up to the next fetchWeather call or past the last
\* station.
RECURSIVE RunLoop(_, _, _)
RunLoop(cy, idx, attempt) ==
    IF idx > Len(stationIds)
    THEN [cy EXCEPT !.pc = "exhausted", !.idx = idx, !.attempt = attempt]
    ELSE IF RetryAllowed(attempt)
    THEN [cy EXCEPT !.pc = "fetch", !.idx = idx, !.attempt = attempt,
                    !.log = Append(cy.log, LogEntry("fetch", idx, 0))]
    ELSE RunLoop(cy, idx + 1, StationLoopAttempt(attempt))

NewCycle(oneshot) ==
    RunLoop([pc |-> "start", idx |-> 1, attempt |-> 0, oneshot |-> oneshot,
             log |-> <<>>], 1, StationLoopAttempt(0))

Exit(code) == running' = FALSE /\ exitCode' = code

\* Lines 120-122 (and 59-61 for the one-shot call).
AllStationsFailedReturnsFalse(cy) ==
    IF cy.oneshot THEN Exit(ExitFetchFailed) ELSE UNCHANGED <<running, exitCode>>
AllStationsFailed(cy) == Exit(ExitFetchFailed)

\* What follows the return of fetchAndPublish with true: the one-shot .then
\* callback exits on failure only; the timer's call ignores the result.
Returned(cy) == UNCHANGED <<running, exitCode>>

\* The end of a turn of cycle i that left it as cy.
Settle(cy) ==
    IF cy.pc = "exhausted" THEN AllStationsFailed(cy)
    ELSE IF cy.pc = "done" THEN Returned(cy)
    ELSE UNCHANGED <<running, exitCode>>

\* fetchAndPublish() is called: it runs up to its first await.
StartCycle(oneshot) ==
    LET cy == NewCycle(oneshot)
    IN  /\ cycles' = Append(cycles, cy)
        /\ Settle(cy)
        /\ UNCHANGED <<delayQ, published>>

\* ------------------------------------------------ top-level script (21-46)
Startup ==
    /\ ~booted
    /\ booted' = TRUE
    /\ IF MissingRequired
       THEN Exit(ExitMissingEnv) /\ UNCHANGED client
       ELSE IF ~isValidMqttTopic(env.SENSOR_NAME)
       THEN Exit(ExitInvalidSensorName) /\ UNCHANGED client
       ELSE client' = "connecting" /\ UNCHANGED <<running, exitCode>>
    /\ UNCHANGED <<env, lastEvent, connects, mode, timers, cycles, delayQ, published, mapper>>

\* ------------------------------------------ broker lifecycle (lines 48-82)
OnConnectArmsTimerOnly ==
    IF ExecEvery # ""
    THEN IF InvalidInterval(parseDuration(ExecEvery))
         THEN /\ Exit(ExitInvalidExecEvery)
              /\ UNCHANGED <<mode, timers, cycles, delayQ, published>>
         ELSE /\ mode' = "timer"
              /\ timers' = timers + 1
              /\ UNCHANGED <<running, exitCode, cycles, delayQ, published>>
    ELSE /\ mode' = "oneshot"
         /\ StartCycle(TRUE)
         /\ UNCHANGED timers
OnConnect ==
    IF ExecEvery # ""
    THEN IF InvalidInterval(parseDuration(ExecEvery))
         THEN /\ Exit(ExitInvalidExecEvery)
              /\ UNCHANGED <<mode, timers, cycles, delayQ, published>>
         ELSE /\ mode' = "timer"
              /\ StartCycle(FALSE)
              /\ timers' = IF running' THEN timers + 1 ELSE timers
    ELSE /\ mode' = "oneshot"
         /\ StartCycle(TRUE)
         /\ UNCHANGED timers

OnCloseLogsOnly == UNCHANGED <<running, exitCode>>
OnClose == Exit(ExitMqttClosed)

OnOfflineLogsOnly == UNCHANGED <<running, exitCode>>
OnOffline == Exit(ExitMqttClosed)

OnError == Exit(ExitMqttError)

\* The client emits connect once its handshake succeeds.
BrokerConnect ==
    /\ running /\ client = "connecting" /\ Len(cycles) < MaxCycles
    /\ client' = "connected"
    /\ lastEvent' = "connect"
    /\ connects' = connects + 1
    /\ OnConnect
    /\ UNCHANGED <<env, booted, mapper>>

\* The client emits close when its connection (attempt) ends; it would then
\* try to reconnect.
BrokerClose ==
    /\ running /\ client # "none"
    /\ client' = "connecting"
    /\ lastEvent' = "close"
    /\ OnClose
    /\ UNCHANGED <<env, booted, connects, mode, timers, cycles, delayQ, published, mapper>>

BrokerOffline ==
    /\ running /\ client # "none"
    /\ client' = "connecting"
    /\ lastEvent' = "offline"
    /\ OnOffline
    /\ UNCHANGED <<env, booted, connects, mode, timers, cycles, delayQ, published, mapper>>

BrokerError ==
    /\ running /\ client # "none"
    /\ lastEvent' = "error"
    /\ OnError
    /\ UNCHANGED <<env, booted, client, connects, mode, timers, cycles, delayQ, published, mapper>>

\* ------------------------------------------------------------- scheduler
\* The interval timer fires (line 57).
TickSkipsWhenBusy ==
    /\ running /\ timers > 0 /\ Len(cycles) < MaxCycles
    /\ \A c \in 1..Len(cycles) : cycles[c].pc \in {"done", "exhausted"}
    /\ StartCycle(FALSE)
    /\ UNCHANGED <<env, booted, client, lastEvent, connects, mode, timers, mapper>>
Tick ==
    /\ running /\ timers > 0 /\ Len(cycles) < MaxCycles
    /\ StartCycle(FALSE)
    /\ UNCHANGED <<env, booted, client, lastEvent, connects, mode, timers, mapper>>

\* The fetch of cycle i settles with resp (lines 106-116).
FetchReturn(i, resp) ==
    /\ running /\ cycles[i].pc = "fetch"
    /\ LET cy == cycles[i]
           returned == Append(cy.log, LogEntry(IF resp.observations # <<>> THEN "list"
                                                ELSE "nothing", cy.idx, 0))
       IN  IF ~resp.threw /\ HasObservations(resp)
           THEN LET msgs == PublishFirst(i, resp.observations)
                    done == [cy EXCEPT !.pc = "done",
                                       !.log = Append(returned, LogEntry("publish", cy.idx, 0))]
                IN  /\ published' = published \o msgs
                    /\ cycles' = [cycles EXCEPT ![i] = done]
                    /\ Settle(done)
                    /\ UNCHANGED delayQ
           ELSE /\ cycles' = [cycles EXCEPT ![i] =
                                [cy EXCEPT !.pc = "delay", !.attempt = NextAttempt(cy.attempt),
                                           !.log = Append(returned,
                                                          LogEntry("delay", cy.idx,
                                                                   RetryDelay(NextAttempt(cy.attempt))))]]
                /\ delayQ' = Append(delayQ, i)
                /\ UNCHANGED <<running, exitCode, published>>
    /\ UNCHANGED <<env, booted, client, lastEvent, connects, mode, timers, mapper>>

\* The oldest retry delay expires (line 116) and its cycle goes on.
DelayDone ==
    /\ running /\ delayQ # <<>>
    /\ LET i == Head(delayQ)
           cy == RunLoop(cycles[i], cycles[i].idx, cycles[i].attempt)
       IN  /\ cycles' = [cycles EXCEPT ![i] = cy]
           /\ Settle(cy)
    /\ delayQ' = Tail(delayQ)
    /\ UNCHANGED <<env, booted, client, lastEvent, connects, mode, timers, published, mapper>>

\* ------------------------------------------------ the publisher alone
\* publishToMqtt applied to one observation after another, as successive
\* cycles of a connected process would apply it, together with what the
\* broker keeps of the retained publishes.

\* The broker's retained store after msgs[i..]: a retained publish replaces
\* the topic's retained message, and one with a zero-length payload removes
\* it (lines 205-206 publish with retain: true).
PayloadLength0(m) == m.topic[4] = "state" /\ m.payload.text = ""
RECURSIVE Deliver(_, _, _)
Deliver(store, msgs, i) ==
    IF i > Len(msgs) THEN store
    ELSE LET m == msgs[i]
         IN  Deliver(IF ~m.retain THEN store
                     ELSE IF PayloadLength0(m) THEN store \ {m.topic}
                     ELSE store \cup {m.topic},
                     msgs, i + 1)

\* The topics among msgs that the broker was given a retained message for.
Retained(msgs) == { msgs[i].topic : i \in { j \in 1..Len(msgs) : msgs[j].retain
                                                         /\ ~PayloadLength0(msgs[j]) } }

\* One call publishToMqtt(obs), the n-th of the run.
Published(obs, n, store, held) ==
    LET msgs == publishToMqtt(n, obs)
    IN  [obs |-> obs, sensors |-> Sensors(obs), out |-> msgs,
         store |-> Deliver(store, msgs, 1), held |-> held \cup Retained(msgs), n |-> n]

MapperIdle == [obs |-> ObsScenario, sensors |-> <<>>, out |-> <<>>, store |-> {},
               held |-> {}, n |-> 0]

\* The field values the next observation can differ in.
FieldValues == { Undefined, Null, Num("0"), Num("7"), Text("") }

ObsFull ==
    [top    |-> [k \in Range(TopKeys) |->
                    IF k = "obsTimeUtc" THEN Text("2024-05-01T10:00:00Z") ELSE Num("0")],
     metric |-> Metric([k \in Range(MetricKeys) |-> Num("1.5")])]

FirstObservations == { ObsScenario, ObsNulls, ObsNoMetric, ObsFull }

Republish(obs) ==
    /\ mapper.n > 0 /\ mapper.n <= MaxEdits
    /\ mapper' = Published(obs, mapper.n + 1, mapper.store, mapper.held)
    /\ UNCHANGED processVars

\* The next observation differs in one top-level field.
NextTopField(k, v) ==
    /\ mapper.obs.top[k] # v
    /\ Republish([mapper.obs EXCEPT !.top[k] = v])

\* The next observation differs in one field of its metric object.
NextMetricField(k, v) ==
    /\ mapper.obs.metric.t = "object"
    /\ mapper.obs.metric.f[k] # v
    /\ Republish([mapper.obs EXCEPT !.metric.f[k] = v])

\* The next observation has no metric group, a null one or an empty one.
NextMetricGroup(m) ==
    /\ mapper.obs.metric # m
    /\ Republish([mapper.obs EXCEPT !.metric = m])

\* The next observation lists two neighbouring metric keys the other way
\* round.
NextKeyOrder(i) ==
    LET order == mapper.obs.metric.order
    IN  /\ mapper.obs.metric.t = "object"
        /\ Republish([mapper.obs EXCEPT !.metric.order =
                        [order EXCEPT ![i] = order[i + 1], ![i + 1] = order[i]]])

Init ==
    /\ mapper = MapperIdle
    /\ env \in Envs
    /\ running = TRUE
    /\ exitCode = 0
    /\ booted = FALSE
    /\ client = "none"
    /\ lastEvent = "none"
    /\ connects = 0
    /\ mode = "none"
    /\ timers = 0
    /\ cycles = <<>>
    /\ delayQ = <<>>
    /\ published = <<>>

Next ==
    \/ Startup
    \/ BrokerConnect
    \/ BrokerClose
    \/ BrokerOffline
    \/ BrokerError
    \/ Tick
    \/ \E i \in 1..Len(cycles), resp \in Responses : FetchReturn(i, resp)
    \/ DelayDone

Spec == Init /\ [][Next]_vars

\* The publisher alone: a connected, timer-driven process whose cycles each
\* obtain an observation and publish it.
MapInit ==
    /\ env = BaseEnv
    /\ running = TRUE
    /\ exitCode = 0
    /\ booted = TRUE
    /\ client = "connected"
    /\ lastEvent = "connect"
    /\ connects = 1
    /\ mode = "timer"
    /\ timers = 1
    /\ cycles = <<>>
    /\ delayQ = <<>>
    /\ published = <<>>
    /\ \E obs \in FirstObservations : mapper = Published(obs, 1, {}, {})

MapNext ==
    \/ \E k \in Range(TopKeys), v \in FieldValues : NextTopField(k, v)
    \/ \E k \in Range(MetricKeys), v \in FieldValues : NextMetricField(k, v)
    \/ \E m \in { NoMetric, NullMetric, Metric(NoFields(MetricKeys)) } : NextMetricGroup(m)
    \/ \E i \in 1..(Len(MetricKeys) - 1) : NextKeyOrder(i)

SpecMap == MapInit /\ [][MapNext]_vars

\* The process under the assumption that every fetchWeather call settles
\* (axios resolves or rejects) and every retry delay runs out (the event
\* loop fires the timer of line 116) while the process runs.
FetchSettles(i) == i <= Len(cycles) /\ \E resp \in Responses : FetchReturn(i, resp)

\* Its environments: every station list with every positive retry budget
\* in one-shot mode, and in timer-driven mode, where cycles overlap, those
\* whose cycles make at most two fetches (a retry, or a second station).
FairEnvs ==
    { [ BaseEnv EXCEPT !.STATION_ID = Chars(JoinStations(n, <<",">>)),
                       !.RETRIES = Numeral(r), !.EXEC_EVERY = Str("") ] :
        n \in 1..MaxStations, r \in 1..MaxRetries }
    \cup { [ BaseEnv EXCEPT !.STATION_ID = Chars(JoinStations(nr[1], <<",">>)),
                            !.RETRIES = Numeral(nr[2]), !.EXEC_EVERY = Str("1m") ] :
             nr \in { x \in (1..MaxStations) \X (1..MaxRetries) :
                        x[1] * x[2] <= 2 } }

FairInit == Init /\ env \in FairEnvs

FairSpec ==
    /\ FairInit /\ [][Next]_vars
    /\ WF_vars(DelayDone)
    /\ \A i \in 1..MaxCycles : WF_vars(FetchSettles(i))

\* ================================================================ claims
Cycles == 1..Len(cycles)
TimerDriven == mode = "timer"
OneShot == mode = "oneshot"

\* The per-station attempt budget: parseInt's NaN admits no attempt.
RetryBudget == IF retries.nan THEN 0 ELSE retries.n

\* The fetchWeather calls of cycle c, oldest first.
Fetches(c) == SelectSeq(cycles[c].log, LAMBDA e : e.op = "fetch")
FetchCount(c, st) ==
    Cardinality({ i \in DOMAIN cycles[c].log :
                    cycles[c].log[i].op = "fetch" /\ cycles[c].log[i].st = st })
PublishedBy(c) == SelectSeq(published, LAMBDA m : m.cycle = c)

\* C1: in one cycle each configured station (each entry of the station
\* list) is fetched at most maxRetries times, and once a fetch has returned
\* a non-empty observation list the cycle makes no further fetch, neither
\* to that station nor to a later one.
C1_BoundedFetchesStopAtSuccess ==
    \A c \in Cycles :
        LET log == cycles[c].log
        IN  /\ \A st \in 1..Len(stationIds) : FetchCount(c, st) <= RetryBudget
            /\ \A i \in DOMAIN log :
                  log[i].op = "list" =>
                      \A j \in (i + 1)..Len(log) : log[j].op # "fetch"

\* A cycle that succeeded on the last attempt its first station had, with a
\* second station configured and never fetched.
C1_Witness ==
    \E c \in Cycles :
        /\ cycles[c].pc = "done"
        /\ Len(stationIds) >= 2
        /\ RetryBudget >= 2
        /\ FetchCount(c, 1) = RetryBudget
        /\ FetchCount(c, 2) = 0

\* C2: the k-th fetch of a cycle goes to the station at position
\* ((k-1) div maxRetries) + 1 of the configured list: the configured order,
\* each station maxRetries times before the next; every fetch but the last
\* has failed; a cycle that leaves the loop has fetched every station
\* maxRetries times.  With [A,B], maxRetries 2, A failing and B succeeding at
\* once, the fetches are A, A, B and one observation is published.
C2_StationOrder ==
    \A c \in Cycles :
        LET log == cycles[c].log
            f == Fetches(c)
        IN  /\ \A k \in 1..Len(f) : f[k].st = ((k - 1) \div RetryBudget) + 1
            /\ \A i \in DOMAIN log :
                  (log[i].op = "fetch" /\ i > 1) =>
                      log[i - 1].op = "delay" /\ log[i - 2].op = "nothing"
            /\ cycles[c].pc = "exhausted" => Len(f) = Len(stationIds) * RetryBudget
            /\ ( /\ stationIds = << <<"A">>, <<"B">> >>
                 /\ RetryBudget = 2
                 /\ cycles[c].pc = "done"
                 /\ FetchCount(c, 2) = 1 )
               => /\ [k \in 1..Len(f) |-> stationIds[f[k].st]]
                     = << <<"A">>, <<"A">>, <<"B">> >>
                  /\ Len(SelectSeq(log, LAMBDA e : e.op = "publish")) = 1

\* The scenario: stations [A,B], maxRetries 2, two failed fetches of A, then
\* B answers and the cycle returns.
C2_Witness ==
    \E c \in Cycles :
        /\ stationIds = << <<"A">>, <<"B">> >>
        /\ RetryBudget = 2
        /\ cycles[c].pc = "done"
        /\ [k \in 1..Len(Fetches(c)) |-> Fetches(c)[k].st] = <<1, 1, 2>>

\* C3 (state part): a cycle that has exhausted every station has terminated the process
\* with exit code 7 and has published nothing, in timer-driven mode as in
\* one-shot mode, and nothing happens afterwards.
C3_ExhaustedInv ==
    \A c \in Cycles :
        cycles[c].pc = "exhausted" =>
            /\ ~running
            /\ exitCode = ExitFetchFailed
            /\ PublishedBy(c) = <<>>
            /\ \A st \in 1..Len(stationIds) : FetchCount(c, st) = RetryBudget
\* C3, in full: the invariant above in every state, and no step once some
\* cycle has left the station loop.
C3_ExhaustionIsFatal ==
    /\ []C3_ExhaustedInv
    /\ [][(\E c \in Cycles : cycles[c].pc = "exhausted") => UNCHANGED vars]_vars

\* Timer-driven mode: the first cycle has published, a later one exhausts
\* two stations and ends the process.
C3_Witness ==
    /\ TimerDriven
    /\ Len(cycles) >= 2
    /\ cycles[1].pc = "done"
    /\ cycles[2].pc = "exhausted"
    /\ Len(stationIds) >= 2
    /\ exitCode = ExitFetchFailed

\* C4 (state part): after close or offline the process has exited with code 5, after
\* error with code 6, whatever the scheduler was doing; and once the process
\* has exited nothing changes any more: no fetch, no publish, no tick.
C4_BrokerEventInv ==
    /\ lastEvent \in {"close", "offline"} => ~running /\ exitCode = ExitMqttClosed
    /\ lastEvent = "error" => ~running /\ exitCode = ExitMqttError
\* C4, in full: the invariant above in every state, and no step once the
\* process has exited.
C4_BrokerEventsTerminal ==
    /\ []C4_BrokerEventInv
    /\ [][~running => UNCHANGED vars]_vars

\* offline arrives while one cycle waits on a fetch and another waits in
\* its retry delay.
C4_Witness ==
    /\ lastEvent = "offline"
    /\ exitCode = ExitMqttClosed
    /\ \E c, d \in Cycles : cycles[c].pc = "fetch" /\ cycles[d].pc = "delay"

\* What the claims about the configuration speak of, read off the
\* environment itself.
OtherRequiredPresent ==
    /\ TruthyStr(env.API_KEY)
    /\ TruthyChars(env.STATION_ID)
    /\ TruthyStr(env.MQTT_HOST)
    /\ TruthyStr(env.MQTT_PORT)
HasReservedChar(name) ==
    name.set /\ \E i \in 1..Len(name.val) : name.val[i] \in {"+", "#", NUL}
GoodSensorName ==
    env.SENSOR_NAME.set /\ env.SENSOR_NAME.val # <<>> /\ ~HasReservedChar(env.SENSOR_NAME)
\* The poll-interval strings that do not parse to a duration of at least 1.
BadPollInterval == env.EXEC_EVERY.set /\ env.EXEC_EVERY.val \in {"abc", "0s", "-5s"}
GoodPollInterval == env.EXEC_EVERY.set /\ env.EXEC_EVERY.val \in {"1m"}

\* C5: with a poll-interval string that does not parse (or parses to less
\* than 1) and an otherwise valid configuration, the process, once it has
\* exited, has exited with code 3 and has made no fetch, whatever broker
\* events arrived at startup.
C5_BadIntervalExits3 ==
    (BadPollInterval /\ GoodSensorName /\ OtherRequiredPresent /\ ~running)
        => exitCode = ExitInvalidExecEvery /\ cycles = <<>>

\* C6 as stated: a sensor-set name with '+', '#' or NUL ends the top-level
\* script with exit code 4, no broker client opened, no fetch made.
C6_ReservedNameExits4 ==
    (HasReservedChar(env.SENSOR_NAME) /\ booted)
        => /\ ~running
           /\ exitCode = ExitInvalidSensorName
           /\ client = "none"
           /\ cycles = <<>>

\* C6 as amended: such a name ends the top-level script before any broker
\* client is opened and before any fetch; the exit code is 4 when the other
\* required settings are present and 2 when one of them is missing.
C6_ReservedNameRejected ==
    (HasReservedChar(env.SENSOR_NAME) /\ booted)
        => /\ ~running
           /\ exitCode = IF OtherRequiredPresent THEN ExitInvalidSensorName
                         ELSE ExitMissingEnv
           /\ client = "none"
           /\ cycles = <<>>
           /\ published = <<>>

\* The name "#" with everything else configured: exit code 4, no client.
C6_Witness ==
    /\ env.SENSOR_NAME = Chars(<<"#">>)
    /\ OtherRequiredPresent
    /\ booted
    /\ exitCode = ExitInvalidSensorName
    /\ client = "none"

\* C7: an empty sensor-set name ends the process with exit code 4, as a
\* name with reserved characters does, not with the code 2 of missing
\* configuration.
C7_EmptyNameExits4 ==
    (env.SENSOR_NAME = Chars(<<>>) /\ OtherRequiredPresent /\ booted)
        => ~running /\ exitCode = ExitInvalidSensorName

\* C8: in one-shot mode exactly one cycle runs; once it has returned
\* success the process has exited with the success code 0, once it has
\* failed with code 7.  (The .then callback of line 59 runs in the turn in
\* which fetchAndPublish returns, so an exit it made would show in the
\* state in which the cycle is done.)
C8_OneShotExits ==
    OneShot =>
        /\ Len(cycles) = 1
        /\ cycles[1].pc = "done" => ~running /\ exitCode = 0
        /\ cycles[1].pc = "exhausted" => ~running /\ exitCode = ExitFetchFailed

\* C9 as stated: with the poll interval absent from the configuration the
\* connect handler schedules in one-shot mode, and it schedules in
\* timer-driven mode only when a poll interval is configured.
C9_AbsentMeansOneShot ==
    /\ (connects > 0 /\ ~env.EXEC_EVERY.set) => mode = "oneshot"
    /\ mode = "timer" => env.EXEC_EVERY.set

\* C9 as amended: one-shot mode is entered exactly when the poll interval
\* is configured as the empty string; an absent poll interval takes the
\* default 1m and enters timer-driven mode, as a configured duration does.
C9_EmptyMeansOneShot ==
    /\ mode = "oneshot" <=> (connects > 0 /\ env.EXEC_EVERY = Str(""))
    /\ mode = "timer" <=> (connects > 0 /\ (~env.EXEC_EVERY.set \/ GoodPollInterval))
    /\ (mode = "timer" /\ running) => timers = 1
    /\ mode # "timer" => timers = 0

\* EXEC_EVERY is unset and the connect handler has armed the interval timer.
C9_Witness ==
    /\ ~env.EXEC_EVERY.set
    /\ mode = "timer"
    /\ timers = 1
    /\ Len(cycles) >= 2

\* C10: every published message is retained; every config message is
\* followed at once by the state message of the same sensor and cycle,
\* every state message is preceded at once by that config message, and a
\* cycle publishes on no topic twice.
Kind(m) == m.topic[4]
Key(m) == m.topic[3]
C10_ConfigThenState ==
    /\ \A i \in DOMAIN published :
          LET m == published[i]
          IN  /\ m.retain
              /\ Kind(m) \in {"config", "state"}
              /\ Kind(m) = "config" =>
                    /\ i + 1 <= Len(published)
                    /\ Kind(published[i + 1]) = "state"
                    /\ Key(published[i + 1]) = Key(m)
                    /\ published[i + 1].cycle = m.cycle
              /\ Kind(m) = "state" =>
                    /\ i > 1
                    /\ Kind(published[i - 1]) = "config"
                    /\ Key(published[i - 1]) = Key(m)
                    /\ published[i - 1].cycle = m.cycle
    /\ \A i, j \in DOMAIN published :
          (i # j /\ published[i].cycle = published[j].cycle)
              => published[i].topic # published[j].topic

\* Two cycles have published, one of them three sensors.
C10_Witness ==
    /\ Len(cycles) >= 2
    /\ Len(PublishedBy(1)) = 6
    /\ Len(PublishedBy(2)) = 4

InFlight(c) == cycles[c].pc \in {"fetch", "delay"}

C13_TickEnabledInv ==
    (running /\ timers > 0 /\ Len(cycles) < MaxCycles /\ \E c \in Cycles : InFlight(c))
    => ENABLED Tick

\* C13: with the timer armed, a tick can start a new cycle while an earlier
\* cycle is still fetching or waiting, and starting a cycle leaves the
\* cycles already started as they are: nothing excludes or cancels them.
C13_NoMutualExclusion ==
    /\ []C13_TickEnabledInv
    /\ [][Len(cycles') > Len(cycles)
          => \A c \in Cycles : cycles'[c] = cycles[c]]_vars

\* Two cycles of a timer-driven process are in flight at once.
C13_Witness ==
    /\ TimerDriven /\ running /\ Len(cycles) >= 2
    /\ InFlight(1) /\ InFlight(2)

\* C14 as stated: every retry delay that has run out is followed by another
\* fetch of the same cycle.
C14_DelayThenFetch ==
    \A c \in Cycles :
        LET log == cycles[c].log
        IN  \A i \in 1..Len(log) :
                log[i].op = "delay"
                => \/ i = Len(log) /\ cycles[c].pc = "delay"
                   \/ i < Len(log) /\ log[i + 1].op = "fetch"

\* C14, amended: the delay is taken after every failed attempt and after
\* nothing else, always 2000 ms long; a delay that has run out is followed
\* by a fetch (a retry, or the next station's first attempt), except the one
\* after the last attempt for the last station, after which the cycle has
\* left the station loop.
C14_DelayAfterEveryFailure ==
    \A c \in Cycles :
        LET log == cycles[c].log
        IN  \A i \in 1..Len(log) :
                /\ log[i].op = "delay"
                   => /\ log[i].ms = RetryDelayMs
                      /\ i > 1 /\ log[i - 1].op = "nothing"
                      /\ \/ i = Len(log) /\ cycles[c].pc = "delay"
                         \/ i < Len(log) /\ log[i + 1].op = "fetch"
                         \/ /\ i = Len(log) /\ cycles[c].pc = "exhausted"
                            /\ log[i].st = Len(stationIds)
                            /\ FetchCount(c, log[i].st) = RetryBudget
                /\ log[i].op = "nothing"
                   => i < Len(log) /\ log[i + 1].op = "delay"

\* A cycle has left the station loop right after a delay, its second at
\* least.
C14_Witness ==
    \E c \in Cycles :
        LET log == cycles[c].log
        IN  /\ cycles[c].pc = "exhausted"
            /\ Len(log) > 0 /\ log[Len(log)].op = "delay"
            /\ Cardinality({ i \in 1..Len(log) : log[i].op = "delay" }) >= 2

C15_TimerInv ==
    /\ (TimerDriven /\ running) => timers = 1
    /\ (TimerDriven /\ running /\ Len(cycles) < MaxCycles) => ENABLED Tick

\* C15: the connect handler of a process with a valid interval starts one
\* cycle in its own turn, before it arms the timer (a first cycle that exits
\* the process leaves no timer armed); from then on the timer stays armed
\* while the process runs, whatever the cycles did, and every tick can start
\* a cycle.
C15_ImmediateCycleThenTicks ==
    /\ []C15_TimerInv
    /\ [][(mode = "none" /\ mode' = "timer")
          => /\ Len(cycles') = Len(cycles) + 1
             /\ running' => (timers' = 1 /\ cycles'[Len(cycles')].pc = "fetch")
             /\ ~running' => (timers' = 0 /\ cycles'[Len(cycles')].pc = "exhausted")]_vars
    /\ [][(TimerDriven /\ running') => timers' = timers]_vars

\* The first cycle has published and returned, the timer is still armed and
\* a tick has started a second cycle.
C15_Witness ==
    /\ TimerDriven /\ running /\ timers = 1
    /\ Len(cycles) = 2
    /\ cycles[1].pc = "done" /\ PublishedBy(1) # <<>>
    /\ cycles[2].pc = "fetch"

Completed(c) == c <= Len(cycles) /\ cycles[c].pc \in {"done", "exhausted"}

C16_CycleInv ==
    \A c \in Cycles :
        LET cy == cycles[c]
            publishes == { i \in 1..Len(cy.log) : cy.log[i].op = "publish" }
        IN  /\ Len(Fetches(c)) <= Len(stationIds) * RetryBudget
            /\ cy.pc = "exhausted"
               => /\ Len(Fetches(c)) = Len(stationIds) * RetryBudget
                  /\ publishes = {}
                  /\ ~running /\ exitCode = ExitFetchFailed
            /\ cy.pc = "done" => publishes = {Len(cy.log)}
            /\ cy.pc \in {"fetch", "delay"} => publishes = {}
            /\ (running /\ cy.pc = "fetch") => ENABLED FetchSettles(c)
            /\ (running /\ cy.pc = "delay") => c \in Range(delayQ)

\* C16: provided every fetch settles and every delay runs out, each cycle
\* that was started ends, unless the process terminates first: it publishes
\* one observation and returns, or it leaves the station loop and the process
\* exits with 7; it makes at most |stationIds| * retries fetches on the way,
\* and exactly that many when it leaves the loop; a cycle in flight of a
\* running process always has its next step pending.
C16_CycleCompletes ==
    /\ []C16_CycleInv
    /\ \A c \in 1..MaxCycles : (c <= Len(cycles)) ~> (Completed(c) \/ ~running)

\* The first cycle has published and returned; the second has failed two
\* fetches, all the station list and the retry budget allow, and has ended
\* the process with 7.
C16_Witness ==
    /\ Len(cycles) = 2
    /\ cycles[1].pc = "done" /\ PublishedBy(1) # <<>>
    /\ cycles[2].pc = "exhausted"
    /\ Len(Fetches(2)) = Len(stationIds) * RetryBudget /\ Len(Fetches(2)) = 2
    /\ ~running /\ exitCode = ExitFetchFailed

\* The observations a fetch can answer with, at any place of the list.
AnsweredObservations ==
    UNION { Range(resp.observations) : resp \in Responses }

C19_PublishedInv ==
    /\ \A i, j, k \in 1..Len(published) :
          (i < j /\ j < k /\ published[i].cycle = published[k].cycle)
          => published[j].cycle = published[i].cycle
    /\ \A c \in Cycles :
          /\ \/ PublishedBy(c) = <<>>
             \/ \E obs \in AnsweredObservations : PublishedBy(c) = publishToMqtt(c, obs)
          /\ Cardinality({ i \in 1..Len(cycles[c].log) : cycles[c].log[i].op = "publish" }) <= 1
          /\ PublishedBy(c) # <<>> => cycles[c].pc = "done"
    /\ \A i, j \in 1..Len(published) :
          (i # j /\ published[i].cycle = published[j].cycle)
          => published[i].topic # published[j].topic

\* C19: the messages of one cycle are published in one turn, with no other
\* cycle's message among them even when cycles overlap: a step that
\* publishes appends messages of one cycle only, which returns in that
\* step; a cycle's messages are those of one observation, and no topic is
\* written twice by one cycle.
C19_ContiguousPublishes ==
    /\ []C19_PublishedInv
    /\ [][published' # published
          => \E c \in Cycles :
                /\ cycles[c].pc = "fetch" /\ cycles'[c].pc = "done"
                /\ PublishedBy(c) = <<>>
                /\ Len(published') > Len(published)
                /\ SubSeq(published', 1, Len(published)) = published
                /\ \A i \in (Len(published) + 1)..Len(published') :
                      published'[i].cycle = c]_vars

\* Two cycles overlapped and both published: the second, started while the
\* first was in flight, published all its messages first.
C19_Witness ==
    /\ Len(cycles) = 2
    /\ cycles[1].pc = "done" /\ cycles[2].pc = "done"
    /\ Len(PublishedBy(1)) >= 4 /\ Len(PublishedBy(2)) >= 4
    /\ published[1].cycle = 2
    /\ published[Len(published)].cycle = 1

C20_ConnectOnceInv ==
    /\ connects <= 1
    /\ timers <= 1
    /\ Cardinality({ c \in Cycles : cycles[c].oneshot }) <= 1
    /\ (mode # "none") => connects = 1
    /\ (connects = 1 /\ lastEvent \in {"close", "offline"})
       => (~running /\ exitCode = ExitMqttClosed)
    /\ (connects = 1 /\ client = "connecting") => ~running

\* C20: the connect handler runs at most once in the life of the process,
\* so it schedules once: at most one interval timer is armed and at most
\* one one-shot cycle is started; a close or offline after the connect ends
\* the process, so the client, back at connecting, delivers no second connect.
C20_ConnectHandledOnce ==
    /\ []C20_ConnectOnceInv
    /\ [][connects' # connects => (connects = 0 /\ mode = "none" /\ timers = 0)]_vars

\* The timer was armed on connect, then the connection closed and the
\* process ended with 5 while its client was about to reconnect.
C20_Witness ==
    /\ connects = 1 /\ timers = 1 /\ TimerDriven
    /\ lastEvent = "close" /\ client = "connecting"
    /\ ~running /\ exitCode = ExitMqttClosed

\* ------------------------------------------------- the publisher's claims
SchemaKeys == TopKeys \o MetricKeys

\* obs.<k> for a top-level field, obs.metric.<k> for a metric field; a field
\* of a metric group that is no object is absent.
FieldValue(obs, k) ==
    IF k \in Range(TopKeys) THEN obs.top[k]
    ELSE IF obs.metric.t = "object" THEN obs.metric.f[k]
    ELSE Undefined

PresentKeys(obs) ==
    { k \in Range(SchemaKeys) : FieldValue(obs, k).t \notin {"undefined", "null"} }

\* The topic of sensor key's config or state message.
TopicOf(key, kind) == <<"homeassistant/sensor", env.SENSOR_NAME.val, key, kind>>

\* What goes over the wire of a message: all but the cycle that sent it.
Wire(m) == [topic |-> m.topic, retain |-> m.retain, payload |-> m.payload]

\* The wire messages of msgs that are not about sensor k, in order.
OtherSensors(msgs, k) ==
    LET NotK(m) == Key(m) # k
        rest == SelectSeq(msgs, NotK)
    IN  [i \in 1..Len(rest) |-> Wire(rest[i])]

\* obs2 is obs1 with field k made absent or null and nothing else changed.
FieldRemoved(obs1, obs2, k) ==
    /\ FieldValue(obs1, k).t \notin {"undefined", "null"}
    /\ FieldValue(obs2, k).t \in {"undefined", "null"}
    /\ \A j \in Range(SchemaKeys) \ {k} : FieldValue(obs2, j) = FieldValue(obs1, j)

C11_PublishedInv ==
    LET out == mapper.out
        keys == PresentKeys(mapper.obs)
    IN  /\ { Key(out[i]) : i \in 1..Len(out) } = keys
        /\ Len(out) = 2 * Cardinality(keys)
        /\ \A k \in keys, kind \in {"config", "state"} :
              Cardinality({ i \in 1..Len(out) : Key(out[i]) = k /\ Kind(out[i]) = kind }) = 1

\* C11: the sensors publishToMqtt publishes for an observation are exactly
\* the schema fields whose value is present and not null (0 and "" count as
\* present), one config and one state message each; and when the next
\* observation has one field turned absent or null, that sensor's two
\* messages are gone and every other sensor's messages are as before.
C11_PublishedSetIsPresentFields ==
    /\ []C11_PublishedInv
    /\ [][\A k \in Range(SchemaKeys) :
            FieldRemoved(mapper.obs, mapper'.obs, k)
            => /\ \A i \in 1..Len(mapper'.out) : Key(mapper'.out[i]) # k
               /\ OtherSensors(mapper'.out, k) = OtherSensors(mapper.out, k)
               /\ Len(mapper'.out) = Len(mapper.out) - 2]_vars

\* The pressure sensor was published, the next observation has
\* metric.pressure = null and a humidity of 0, and the publisher has run on it.
C11_Witness ==
    /\ mapper.n = 2
    /\ TopicOf("pressure", "state") \in mapper.held
    /\ FieldValue(mapper.obs, "pressure") = Null
    /\ FieldValue(mapper.obs, "humidity") = Num("0")
    /\ \E i \in 1..Len(mapper.out) : Key(mapper.out[i]) = "humidity"
    /\ \A i \in 1..Len(mapper.out) : Key(mapper.out[i]) # "pressure"

\* The place of key k in the schema: the four top-level fields, then the ten
\* of the metric group.
SchemaPos(k) == CHOOSE p \in 1..Len(SchemaKeys) : SchemaKeys[p] = k

WireSeq(msgs) == [i \in 1..Len(msgs) |-> Wire(msgs[i])]

SameFields(obs1, obs2) ==
    \A k \in Range(SchemaKeys) : FieldValue(obs1, k) = FieldValue(obs2, k)

C12_SchemaOrderInv ==
    \A i, j \in 1..Len(mapper.out) :
        i < j => SchemaPos(Key(mapper.out[i])) <= SchemaPos(Key(mapper.out[j]))

\* C12: the sensors of one publishToMqtt call come in the schema's order
\* (obsTimeUtc, solarRadiation, winddir, humidity, temp, heatIndex, dewpt,
\* windChill, windSpeed, windGust, pressure, precipRate, precipTotal, elev,
\* the absent ones left out), and an observation with the same field values,
\* whatever the order of its keys, is published as the same sequence.
C12_FixedSchemaOrder ==
    /\ []C12_SchemaOrderInv
    /\ [][SameFields(mapper.obs, mapper'.obs)
          => WireSeq(mapper'.out) = WireSeq(mapper.out)]_vars

\* An observation with all fourteen fields that lists heatIndex before temp
\* has been published, temp first.
C12_Witness ==
    /\ mapper.n = 2
    /\ mapper.obs.metric.order[1] = "heatIndex"
    /\ mapper.obs.metric.order[2] = "temp"
    /\ Len(mapper.out) = 2 * Len(SchemaKeys)
    /\ Key(mapper.out[9]) = "temp"
    /\ Key(mapper.out[11]) = "heatIndex"

\* C17 as stated: the publisher never clears a retained message: a topic
\* that once held one still holds one, a null or absent field publishes
\* nothing on its sensor's topics, and no published payload is of length
\* zero.
C17_NeverClearsRetained ==
    /\ mapper.held \subseteq mapper.store
    /\ \A i \in 1..Len(mapper.out) :
          /\ ~PayloadLength0(mapper.out[i])
          /\ Key(mapper.out[i]) \in PresentKeys(mapper.obs)

\* C18 as stated: no sensor descriptor is built with a null or absent value.
C18_NoNullDescriptor ==
    \A i \in 1..Len(mapper.sensors) :
        mapper.sensors[i].value.t \notin {"undefined", "null"}

\* C18, amended: the four top-level descriptors are always built, with the
\* observation's value whatever it is; a metric descriptor is built exactly
\* for the metric fields that are neither null nor absent; and every
\* published message comes from a descriptor whose value is neither.
C18_MetricDescriptorsFiltered ==
    LET sensors == mapper.sensors
        top == Len(TopKeys)
    IN  /\ Len(sensors) >= top
        /\ \A i \in 1..top : /\ sensors[i].key = TopKeys[i]
                              /\ sensors[i].value = mapper.obs.top[TopKeys[i]]
        /\ \A i \in (top + 1)..Len(sensors) :
              /\ sensors[i].key \in Range(MetricKeys)
              /\ sensors[i].value.t \notin {"undefined", "null"}
              /\ sensors[i].value = FieldValue(mapper.obs, sensors[i].key)
        /\ { sensors[i].key : i \in (top + 1)..Len(sensors) }
              = PresentKeys(mapper.obs) \ Range(TopKeys)
        /\ \A m \in 1..Len(mapper.out) :
              \E i \in 1..Len(sensors) :
                  /\ sensors[i].key = Key(mapper.out[m])
                  /\ sensors[i].value.t \notin {"undefined", "null"}

\* For a second observation, with humidity null and metric.pressure null,
\* the humidity descriptor is built with the null, no pressure descriptor is
\* built, and neither sensor is published.
C18_Witness ==
    /\ mapper.n = 2
    /\ mapper.obs.top["humidity"] = Null
    /\ FieldValue(mapper.obs, "pressure") = Null
    /\ mapper.sensors[4].key = "humidity" /\ mapper.sensors[4].value = Null
    /\ \A i \in 1..Len(mapper.sensors) : mapper.sensors[i].key # "pressure"
    /\ \A m \in 1..Len(mapper.out) : Key(mapper.out[m]) \notin {"humidity", "pressure"}
    /\ mapper.out # <<>>

====
